---------------------------- MODULE Spec2Model ----------------------------
(***************************************************************************)
(* StarDict dictionary import (backend/app/services/stardict_service.py).  *)
(*                                                                         *)
(* Strings are sequences of Unicode code points, byte strings sequences of *)
(* values in 0..255.  Offsets into Python sequences are 0-based, as in the *)
(* source; Slice converts to TLA+'s 1-based SubSeq.                        *)
(***************************************************************************)
EXTENDS Integers, Sequences, FiniteSets, TLC

(***************************************************************************)
(* Bounds of the model                                                     *)
(***************************************************************************)
\* longest index (number of index records) of a generated archive
MaxIdx == 2
\* longest definition blob, in bytes, of a generated archive
MaxBlob == 2
\* largest batch_size option drawn
MaxBatch == 2
\* longest index of an archive of SpecBatch
MaxRecords == 5

\* the import runs made against the service instance: a first and a second
Runs == {1, 2}

(***************************************************************************)
(* Python sequence helpers                                                 *)
(***************************************************************************)
Min(a, b) == IF a < b THEN a ELSE b

\* s[a:b] for 0 <= a, 0 <= b: clamped to the sequence, empty when a >= b
Slice(s, a, b) == SubSeq(s, Min(a, Len(s)) + 1, Min(b, Len(s)))

\* the 0-based positions s[a:b] touches
SlicePositions(s, a, b) == { k \in 0..(Len(s) - 1) : a <= k /\ k < b }

RECURSIVE FindFrom(_, _, _)
\* bytes.find(x, start): 0-based position of the first x at or after start, or -1
FindFrom(s, x, start) ==
  IF start >= Len(s) THEN -1
  ELSE IF s[start + 1] = x THEN start
  ELSE FindFrom(s, x, start + 1)

Range(s) == { s[k] : k \in 1..Len(s) }

\* every sequence over S of length at most n
SeqsUpTo(S, n) == UNION { [1..k -> S] : k \in 0..n }

(***************************************************************************)
(* Characters: str.isspace / regex \s, the control class of                *)
(* _parse_definition_data, str.strip                                       *)
(***************************************************************************)
\* str.isspace() and re's \s agree on these code points (below U+3000)
IsSpace(c) ==
  \/ c \in 9..13
  \/ c \in 28..32
  \/ c \in {133, 160, 5760, 8232, 8233, 8239, 8287}
  \/ c \in 8192..8202

\* the character class [\x00-\x1f\x7f-\x9f]
IsControl(c) == c \in 0..31 \/ c \in 127..159

RECURSIVE LStrip(_)
LStrip(s) == IF s # <<>> /\ IsSpace(Head(s)) THEN LStrip(Tail(s)) ELSE s

RECURSIVE RStrip(_)
RStrip(s) ==
  IF s # <<>> /\ IsSpace(s[Len(s)]) THEN RStrip(SubSeq(s, 1, Len(s) - 1)) ELSE s

\* str.strip()
Strip(s) == RStrip(LStrip(s))

(***************************************************************************)
(* UTF-8                                                                   *)
(***************************************************************************)
IsCont(b) == b \in 128..191

\* the range a second byte must lie in after lead byte b0 (CPython's decoder)
SecondOk(b0, b1) ==
  CASE b0 = 224 -> b1 \in 160..191
    [] b0 = 237 -> b1 \in 128..159
    [] b0 = 240 -> b1 \in 144..191
    [] b0 = 244 -> b1 \in 128..143
    [] OTHER    -> IsCont(b1)

\* decode one code point of b at 0-based position i:
\* ok, n bytes consumed (on an error: the bytes the error covers), code point
DecodeAt(b, i) ==
  LET len == Len(b)
      b0 == b[i + 1]
      has(k) == i + k < len
      at(k) == b[i + k + 1]
      bad(n) == [ok |-> FALSE, n |-> n, cp |-> 0]
  IN IF b0 < 128 THEN [ok |-> TRUE, n |-> 1, cp |-> b0]
     ELSE IF b0 \in 194..223 THEN
       IF has(1) /\ IsCont(at(1))
         THEN [ok |-> TRUE, n |-> 2, cp |-> (b0 - 192) * 64 + (at(1) - 128)]
         ELSE bad(1)
     ELSE IF b0 \in 224..239 THEN
       IF ~(has(1) /\ SecondOk(b0, at(1))) THEN bad(1)
       ELSE IF ~(has(2) /\ IsCont(at(2))) THEN bad(2)
       ELSE [ok |-> TRUE, n |-> 3,
             cp |-> (b0 - 224) * 4096 + (at(1) - 128) * 64 + (at(2) - 128)]
     ELSE IF b0 \in 240..244 THEN
       IF ~(has(1) /\ SecondOk(b0, at(1))) THEN bad(1)
       ELSE IF ~(has(2) /\ IsCont(at(2))) THEN bad(2)
       ELSE IF ~(has(3) /\ IsCont(at(3))) THEN bad(3)
       ELSE [ok |-> TRUE, n |-> 4,
             cp |-> (b0 - 240) * 262144 + (at(1) - 128) * 4096
                    + (at(2) - 128) * 64 + (at(3) - 128)]
     ELSE bad(1)

RECURSIVE DecodeFrom(_, _, _, _)
\* bytes.decode('utf-8', errors=...) from position i; ignore = TRUE drops the
\* bytes of each error, ignore = FALSE fails on the first one
DecodeFrom(b, i, ignore, acc) ==
  IF i >= Len(b) THEN [ok |-> TRUE, str |-> acc]
  ELSE LET d == DecodeAt(b, i)
       IN IF d.ok THEN DecodeFrom(b, i + d.n, ignore, Append(acc, d.cp))
          ELSE IF ignore THEN DecodeFrom(b, i + d.n, ignore, acc)
          ELSE [ok |-> FALSE, str |-> <<>>]

\* data.decode('utf-8'): ok = FALSE stands for UnicodeDecodeError
DecodeStrict(b) == DecodeFrom(b, 0, FALSE, <<>>)

\* data.decode('utf-8', errors='ignore')
DecodeIgnore(b) == DecodeFrom(b, 0, TRUE, <<>>).str

\* str.encode('utf-8') of one code point below U+10000
EncodeChar(c) ==
  IF c < 128 THEN <<c>>
  ELSE IF c < 2048 THEN <<192 + (c \div 64), 128 + (c % 64)>>
  ELSE <<224 + (c \div 4096), 128 + ((c \div 64) % 64), 128 + (c % 64)>>

RECURSIVE EncodeStr(_)
EncodeStr(s) == IF s = <<>> THEN <<>> ELSE EncodeChar(Head(s)) \o EncodeStr(Tail(s))

\* struct.pack('>I', n)
PackU32(n) ==
  <<(n \div 16777216) % 256, (n \div 65536) % 256, (n \div 256) % 256, n % 256>>

\* struct.unpack('>I', b)
UnpackU32(b) == b[1] * 16777216 + b[2] * 65536 + b[3] * 256 + b[4]


(***************************************************************************)
(* Files of an archive directory                                           *)
(*                                                                         *)
(* A header file is a sequence of lines, a line a sequence of tokens (the  *)
(* token "=" is the character '='; other tokens are runs of characters     *)
(* without '=').  A binary file has its bytes, the gz flag (the file found *)
(* is NAME.gz) and corrupt (gzip cannot decompress it).                    *)
(***************************************************************************)
Signature == "StarDict's dict ifo file"

\* a first line that begins with the signature and goes on
SignatureAndMore == "StarDict's dict ifo file (copy)"

\* token.startswith("StarDict's dict ifo file"), on the first tokens the
\* model's header files have
StartsWithSignature(token) == token \in {Signature, SignatureAndMore}

NoIfo == [exists |-> FALSE, lines |-> <<>>]
IfoFile(lines) == [exists |-> TRUE, lines |-> lines]

NoBin == [exists |-> FALSE, gz |-> FALSE, corrupt |-> FALSE, data |-> <<>>]
BinFile(data) == [exists |-> TRUE, gz |-> FALSE, corrupt |-> FALSE, data |-> data]
GzFile(data) == [exists |-> TRUE, gz |-> TRUE, corrupt |-> FALSE, data |-> data]
BadGzFile == [exists |-> TRUE, gz |-> TRUE, corrupt |-> TRUE, data |-> <<>>]

\* the integer int(text) returns, for the numeric texts the model writes
IntValue == ("0" :> 0) @@ ("1" :> 1) @@ ("2" :> 2) @@ ("3" :> 3) @@ ("-1" :> -1)

\* int(value) succeeds
IsIntText(value) == Len(value) = 1 /\ value[1] \in DOMAIN IntValue

RequiredFields == <<"version", "bookname", "wordcount", "idxfilesize">>

RECURSIVE ParseIfoLines(_, _)
\* the key=value loop of parse_ifo_file: split at the first '=', last key wins
ParseIfoLines(lines, info) ==
  IF lines = <<>> THEN info
  ELSE LET line == Head(lines)
           eq == FindFrom(line, "=", 0)
       IN IF eq = -1 THEN ParseIfoLines(Tail(lines), info)
          ELSE ParseIfoLines(Tail(lines),
                 (Slice(line, 0, eq) :> Slice(line, eq + 1, Len(line))) @@ info)

\* parse_ifo_file without the check of the signature line
parse_ifo_file_unsigned(lines) ==
  LET none == <<>>
      info == ParseIfoLines(Tail(lines), <<>>)
      missing == { k \in 1..Len(RequiredFields) : <<RequiredFields[k]>> \notin DOMAIN info }
      fail(e) == [err |-> e, info |-> none]
  IN IF lines = <<>> THEN fail("IndexError")
     ELSE IF missing # {} THEN fail("MissingField")
     ELSE IF ~IsIntText(info[<<"wordcount">>]) \/ ~IsIntText(info[<<"idxfilesize">>])
       THEN fail("MalformedValue")
     ELSE [err |-> "none",
           info |-> (<<"wordcount">> :> IntValue[info[<<"wordcount">>][1]])
                    @@ (<<"idxfilesize">> :> IntValue[info[<<"idxfilesize">>][1]])
                    @@ info]

\* parse_ifo_file on the lines of the header file
parse_ifo_file(lines) ==
  LET none == <<>>
      info == ParseIfoLines(Tail(lines), <<>>)
      missing == { k \in 1..Len(RequiredFields) : <<RequiredFields[k]>> \notin DOMAIN info }
      fail(e) == [err |-> e, info |-> none]
  IN IF lines = <<>> THEN fail("IndexError")
     ELSE IF ~(Head(lines) # <<>> /\ StartsWithSignature(Head(lines)[1]))
       THEN fail("InvalidFormat")
     ELSE IF missing # {} THEN fail("MissingField")
     ELSE IF ~IsIntText(info[<<"wordcount">>]) \/ ~IsIntText(info[<<"idxfilesize">>])
       THEN fail("MalformedValue")
     ELSE [err |-> "none",
           info |-> (<<"wordcount">> :> IntValue[info[<<"wordcount">>][1]])
                    @@ (<<"idxfilesize">> :> IntValue[info[<<"idxfilesize">>][1]])
                    @@ info]

\* info_data.get('bookname', 'Unknown')
Bookname(info) ==
  IF <<"bookname">> \in DOMAIN info THEN info[<<"bookname">>] ELSE <<"Unknown">>

RECURSIVE IdxScanKeepsParsed(_, _, _)
\* IdxScan stopping at a word that is not UTF-8 with the entries parsed so far
IdxScanKeepsParsed(data, offset, index) ==
  IF ~(offset < Len(data)) THEN [err |-> "none", index |-> index]
  ELSE LET null_pos == FindFrom(data, 0, offset)
           word == DecodeStrict(Slice(data, offset, null_pos))
       IN IF null_pos = -1 THEN [err |-> "none", index |-> index]
          ELSE IF ~word.ok THEN [err |-> "none", index |-> index]
          ELSE IF null_pos + 8 >= Len(data) THEN [err |-> "none", index |-> index]
          ELSE IdxScanKeepsParsed(data, null_pos + 9,
                 Append(index,
                   [word |-> word.str,
                    offset |-> UnpackU32(Slice(data, null_pos + 1, null_pos + 5)),
                    size |-> UnpackU32(Slice(data, null_pos + 5, null_pos + 9))]))

RECURSIVE IdxScanDropsLast(_, _, _)
\* IdxScan stopping at a record that ends exactly at the end of the data
IdxScanDropsLast(data, offset, index) ==
  IF ~(offset < Len(data)) THEN [err |-> "none", index |-> index]
  ELSE LET null_pos == FindFrom(data, 0, offset)
           word == DecodeStrict(Slice(data, offset, null_pos))
       IN IF null_pos = -1 THEN [err |-> "none", index |-> index]
          ELSE IF ~word.ok THEN [err |-> "UnicodeDecodeError", index |-> <<>>]
          ELSE IF null_pos + 9 >= Len(data) THEN [err |-> "none", index |-> index]
          ELSE IdxScanDropsLast(data, null_pos + 9,
                 Append(index,
                   [word |-> word.str,
                    offset |-> UnpackU32(Slice(data, null_pos + 1, null_pos + 5)),
                    size |-> UnpackU32(Slice(data, null_pos + 5, null_pos + 9))]))

RECURSIVE IdxScan(_, _, _)
\* the while loop of parse_idx_file from cursor offset
IdxScan(data, offset, index) ==
  IF ~(offset < Len(data)) THEN [err |-> "none", index |-> index]
  ELSE LET null_pos == FindFrom(data, 0, offset)
           word == DecodeStrict(Slice(data, offset, null_pos))
       IN IF null_pos = -1 THEN [err |-> "none", index |-> index]
          ELSE IF ~word.ok THEN [err |-> "UnicodeDecodeError", index |-> <<>>]
          ELSE IF null_pos + 8 >= Len(data) THEN [err |-> "none", index |-> index]
          ELSE IdxScan(data, null_pos + 9,
                 Append(index,
                   [word |-> word.str,
                    offset |-> UnpackU32(Slice(data, null_pos + 1, null_pos + 5)),
                    size |-> UnpackU32(Slice(data, null_pos + 5, null_pos + 9))]))

\* parse_idx_file on the index file found
parse_idx_file(file) ==
  IF file.gz /\ file.corrupt THEN [err |-> "CorruptArchive", index |-> <<>>]
  ELSE IdxScan(file.data, 0, <<>>)

\* parse_dict_file on the definition file found
parse_dict_file(file) ==
  IF file.gz /\ file.corrupt THEN [err |-> "CorruptArchive", data |-> <<>>]
  ELSE [err |-> "none", data |-> file.data]

RECURSIVE SubControl(_)
\* re.sub(r'[\x00-\x1f\x7f-\x9f]', ' ', s)
SubControl(s) ==
  IF s = <<>> THEN <<>>
  ELSE <<IF IsControl(Head(s)) THEN 32 ELSE Head(s)>> \o SubControl(Tail(s))

RECURSIVE CollapseSpace(_)
\* re.sub(r'\s+', ' ', s)
CollapseSpace(s) ==
  IF s = <<>> THEN <<>>
  ELSE IF IsSpace(Head(s)) THEN <<32>> \o CollapseSpace(LStrip(s))
  ELSE <<Head(s)>> \o CollapseSpace(Tail(s))

\* parse_definition_data without the collapsing of whitespace
parse_definition_data_no_collapse(data) == SubControl(Strip(DecodeIgnore(data)))

\* _parse_definition_data
parse_definition_data(data) == CollapseSpace(SubControl(Strip(DecodeIgnore(data))))

\* ExtractOne with the bounds check on the offset alone
ExtractOneOffsetOnly(e, dict_data, info) ==
  IF e.offset > Len(dict_data)
    THEN [entries |-> <<>>, read |-> {}]
    ELSE LET definition_data == Slice(dict_data, e.offset, e.offset + e.size)
         IN [entries |-> <<[word |-> e.word,
                            definition |-> parse_definition_data(definition_data),
                            source_dict |-> Bookname(info),
                            raw_data |-> definition_data]>>,
             read |-> SlicePositions(dict_data, e.offset, e.offset + e.size)]

\* one iteration of the loop of extract_definitions: the record appended (none
\* when the entry is out of bounds) and the blob positions read
ExtractOne(e, dict_data, info) ==
  IF e.offset + e.size > Len(dict_data)
    THEN [entries |-> <<>>, read |-> {}]
    ELSE LET definition_data == Slice(dict_data, e.offset, e.offset + e.size)
         IN [entries |-> <<[word |-> e.word,
                            definition |-> parse_definition_data(definition_data),
                            source_dict |-> Bookname(info),
                            raw_data |-> definition_data]>>,
             read |-> SlicePositions(dict_data, e.offset, e.offset + e.size)]

RECURSIVE ExtractLoop(_, _, _)
ExtractLoop(index, dict_data, info) ==
  IF index = <<>> THEN [entries |-> <<>>, reads |-> <<>>]
  ELSE LET one == ExtractOne(Head(index), dict_data, info)
           rest == ExtractLoop(Tail(index), dict_data, info)
       IN [entries |-> one.entries \o rest.entries, reads |-> <<one.read>> \o rest.reads]

\* extract_definitions on the parser's fields
extract_definitions(p) ==
  IF p.index_data = <<>> \/ p.dict_data = <<>>
    THEN [err |-> "NotLoaded", entries |-> <<>>, reads |-> <<>>]
    ELSE LET x == ExtractLoop(p.index_data, p.dict_data, p.info_data)
         IN [err |-> "none", entries |-> x.entries, reads |-> x.reads]

\* StarDictParser.__init__
NewParser == [info_data |-> <<>>, index_data |-> <<>>, dict_data |-> <<>>, entries |-> <<>>]

\* parse_stardict_files on directory dir with parser fields p: the exception
\* raised (or none), the parser fields afterwards, the entries returned and the
\* blob positions read per index entry
parse_stardict_files(p, dir) ==
  LET fail(e, q) == [err |-> e, parser |-> q, entries |-> <<>>, reads |-> <<>>]
      ifo == parse_ifo_file(dir.ifo.lines)
      p1 == [p EXCEPT !.info_data = ifo.info]
      idx == parse_idx_file(dir.idx)
      p2 == [p1 EXCEPT !.index_data = idx.index]
      dict == parse_dict_file(dir.dict)
      p3 == [p2 EXCEPT !.dict_data = dict.data]
      ext == extract_definitions(p3)
      p4 == [p3 EXCEPT !.entries = ext.entries]
  IN IF ~dir.ifo.exists \/ ~dir.idx.exists \/ ~dir.dict.exists THEN fail("FileNotFound", p)
     ELSE IF ifo.err # "none" THEN fail(ifo.err, p)
     ELSE IF idx.err # "none" THEN fail(idx.err, p1)
     ELSE IF dict.err # "none" THEN fail(dict.err, p2)
     ELSE IF ext.err # "none" THEN fail(ext.err, p3)
     ELSE [err |-> "none", parser |-> p4, entries |-> ext.entries, reads |-> ext.reads]


(***************************************************************************)
(* Glossary entries                                                        *)
(***************************************************************************)
\* the limits of _process_entry_for_import
MaxWordLen == 255
MaxDefinitionLen == 10000

\* code points of the character class [āīūṛṝḷḹēōṃḥṅñṭḍṇśṣ]
IastChars ==
  {257, 299, 363, 7771, 7773, 7735, 7737, 275, 333, 7747, 7717, 7749, 241,
   7789, 7693, 7751, 347, 7779}

IsDevanagariChar(c) == c \in 2304..2431

\* str.lower() on the letters the model's words use: ASCII capitals and the
\* capitals of the Latin letters with macron
LowerChar(c) ==
  IF c \in 65..90 THEN c + 32
  ELSE IF c \in {256, 274, 298, 332, 362} THEN c + 1
  ELSE c

Lower(s) == [k \in 1..Len(s) |-> LowerChar(s[k])]

\* str.endswith(suffix)
EndsWith(s, suffix) ==
  Len(suffix) <= Len(s) /\ SubSeq(s, Len(s) - Len(suffix) + 1, Len(s)) = suffix

EndsWithAny(s, suffixes) == \E x \in suffixes : EndsWith(s, x)

\* dict.get(key, default)
Get(d, key, default) == IF key \in DOMAIN d THEN d[key] ELSE default

\* analyze_word without the test for IAST diacritics
analyze_word_no_iast(word) ==
  LET script ==
        IF \E k \in 1..Len(word) : IsDevanagariChar(word[k])
          THEN ("devanagari" :> word) @@ ("script" :> "devanagari")
        ELSE ("romanized" :> word) @@ ("script" :> "romanized")
      word_lower == Lower(word)
      gender ==
        IF EndsWithAny(word_lower, {<<2366>>, <<97>>}) THEN ("gender" :> "masculine")
        ELSE IF EndsWithAny(word_lower, {<<2368>>, <<299>>, <<105>>})
          THEN ("gender" :> "feminine")
        ELSE IF EndsWithAny(word_lower, {<<2350, 2381>>, <<97, 109>>, <<117, 109>>})
          THEN ("gender" :> "neuter")
        ELSE <<>>
  IN script @@ gender

\* analyze_word testing the IAST diacritics before the Devanagari block
analyze_word_iast_first(word) ==
  LET script ==
        IF \E k \in 1..Len(word) : word[k] \in IastChars
          THEN ("iast" :> word) @@ ("script" :> "iast")
        ELSE IF \E k \in 1..Len(word) : IsDevanagariChar(word[k])
          THEN ("devanagari" :> word) @@ ("script" :> "devanagari")
        ELSE ("romanized" :> word) @@ ("script" :> "romanized")
      word_lower == Lower(word)
      gender ==
        IF EndsWithAny(word_lower, {<<2366>>, <<97>>}) THEN ("gender" :> "masculine")
        ELSE IF EndsWithAny(word_lower, {<<2368>>, <<299>>, <<105>>})
          THEN ("gender" :> "feminine")
        ELSE IF EndsWithAny(word_lower, {<<2350, 2381>>, <<97, 109>>, <<117, 109>>})
          THEN ("gender" :> "neuter")
        ELSE <<>>
  IN script @@ gender

\* analyze_word matching the suffixes against the word as written, not
\* lowercased
analyze_word_case_sensitive(word) ==
  LET script ==
        IF \E k \in 1..Len(word) : IsDevanagariChar(word[k])
          THEN ("devanagari" :> word) @@ ("script" :> "devanagari")
        ELSE IF \E k \in 1..Len(word) : word[k] \in IastChars
          THEN ("iast" :> word) @@ ("script" :> "iast")
        ELSE ("romanized" :> word) @@ ("script" :> "romanized")
      gender ==
        IF EndsWithAny(word, {<<2366>>, <<97>>}) THEN ("gender" :> "masculine")
        ELSE IF EndsWithAny(word, {<<2368>>, <<299>>, <<105>>})
          THEN ("gender" :> "feminine")
        ELSE IF EndsWithAny(word, {<<2350, 2381>>, <<97, 109>>, <<117, 109>>})
          THEN ("gender" :> "neuter")
        ELSE <<>>
  IN script @@ gender

\* _analyze_word: the word_info dict
analyze_word(word) ==
  LET script ==
        IF \E k \in 1..Len(word) : IsDevanagariChar(word[k])
          THEN ("devanagari" :> word) @@ ("script" :> "devanagari")
        ELSE IF \E k \in 1..Len(word) : word[k] \in IastChars
          THEN ("iast" :> word) @@ ("script" :> "iast")
        ELSE ("romanized" :> word) @@ ("script" :> "romanized")
      word_lower == Lower(word)
      gender ==
        IF EndsWithAny(word_lower, {<<2366>>, <<97>>}) THEN ("gender" :> "masculine")
        ELSE IF EndsWithAny(word_lower, {<<2368>>, <<299>>, <<105>>})
          THEN ("gender" :> "feminine")
        ELSE IF EndsWithAny(word_lower, {<<2350, 2381>>, <<97, 109>>, <<117, 109>>})
          THEN ("gender" :> "neuter")
        ELSE <<>>
  IN script @@ gender

\* Python's None, as a field value and as the result of a call
None == "None"
NoEntry == [none |-> TRUE]

\* process_entry_for_import leaving word_devanagari empty for a word that is
\* not Devanagari
process_entry_for_import_blank(entry, context, validate) ==
  LET word == Strip(entry.word)
      definition == Strip(entry.definition)
      word_info == analyze_word(word)
  IN IF word = <<>> \/ definition = <<>> THEN NoEntry
     ELSE IF validate /\ (Len(word) > MaxWordLen \/ Len(definition) > MaxDefinitionLen)
       THEN NoEntry
     ELSE [word_devanagari |-> Get(word_info, "devanagari", <<>>),
           word_iast |-> Get(word_info, "iast", <<>>),
           word_romanized |-> Get(word_info, "romanized", <<>>),
           meaning_english |-> definition,
           meaning_hindi |-> <<>>,
           part_of_speech |-> Get(word_info, "pos", None),
           gender |-> Get(word_info, "gender", None),
           context |-> context,
           source |-> entry.source_dict,
           frequency |-> 1,
           is_verified |-> FALSE]

\* process_entry_for_import rejecting a word or a definition at the limit
process_entry_for_import_inclusive(entry, context, validate) ==
  LET word == Strip(entry.word)
      definition == Strip(entry.definition)
      word_info == analyze_word(word)
  IN IF word = <<>> \/ definition = <<>> THEN NoEntry
     ELSE IF validate /\ (Len(word) >= MaxWordLen \/ Len(definition) >= MaxDefinitionLen)
       THEN NoEntry
     ELSE [word_devanagari |-> Get(word_info, "devanagari", word),
           word_iast |-> Get(word_info, "iast", <<>>),
           word_romanized |-> Get(word_info, "romanized", <<>>),
           meaning_english |-> definition,
           meaning_hindi |-> <<>>,
           part_of_speech |-> Get(word_info, "pos", None),
           gender |-> Get(word_info, "gender", None),
           context |-> context,
           source |-> entry.source_dict,
           frequency |-> 1,
           is_verified |-> FALSE]

\* _process_entry_for_import: the glossary entry, or None
process_entry_for_import(entry, context, validate) ==
  LET word == Strip(entry.word)
      definition == Strip(entry.definition)
      word_info == analyze_word(word)
  IN IF word = <<>> \/ definition = <<>> THEN NoEntry
     ELSE IF validate /\ (Len(word) > MaxWordLen \/ Len(definition) > MaxDefinitionLen)
       THEN NoEntry
     ELSE [word_devanagari |-> Get(word_info, "devanagari", word),
           word_iast |-> Get(word_info, "iast", <<>>),
           word_romanized |-> Get(word_info, "romanized", <<>>),
           meaning_english |-> definition,
           meaning_hindi |-> <<>>,
           part_of_speech |-> Get(word_info, "pos", None),
           gender |-> Get(word_info, "gender", None),
           context |-> context,
           source |-> entry.source_dict,
           frequency |-> 1,
           is_verified |-> FALSE]

RECURSIVE ProcessLoop(_, _, _)
\* the loop over entries of import_stardict_dictionary:
\* processed_entries and skipped_entries
ProcessLoop(entries, context, validate) ==
  IF entries = <<>> THEN [processed |-> <<>>, skipped |-> <<>>]
  ELSE LET processed_entry == process_entry_for_import(Head(entries), context, validate)
           rest == ProcessLoop(Tail(entries), context, validate)
       IN IF processed_entry # NoEntry
            THEN [processed |-> <<processed_entry>> \o rest.processed,
                  skipped |-> rest.skipped]
            ELSE [processed |-> rest.processed,
                  skipped |-> <<Head(entries).word>> \o rest.skipped]

RECURSIVE NonEmptyField(_, _)
\* [e[field] for e in entries if e[field]]
NonEmptyField(entries, field) ==
  IF entries = <<>> THEN <<>>
  ELSE (IF Head(entries)[field] # <<>> THEN <<Head(entries)[field]>> ELSE <<>>)
       \o NonEmptyField(Tail(entries), field)

\* select(column).where(column.in_(words)) on the committed rows
QueryColumn(rows, field, words) ==
  { rows[k][field] : k \in { j \in 1..Len(rows) : rows[j][field] \in Range(words) } }

RECURSIVE FilterUniqueIastOnly(_, _)
\* FilterUnique testing the word_iast field alone
FilterUniqueIastOnly(entries, existing_words) ==
  IF entries = <<>> THEN <<>>
  ELSE (IF Head(entries).word_iast \notin existing_words
          THEN <<Head(entries)>> ELSE <<>>)
       \o FilterUniqueIastOnly(Tail(entries), existing_words)

RECURSIVE FilterUnique(_, _)
\* the filter loop of _deduplicate_entries
FilterUnique(entries, existing_words) ==
  IF entries = <<>> THEN <<>>
  ELSE (IF Head(entries).word_devanagari \notin existing_words
           /\ Head(entries).word_iast \notin existing_words
          THEN <<Head(entries)>> ELSE <<>>)
       \o FilterUnique(Tail(entries), existing_words)


(***************************************************************************)
(* Archives on disk                                                        *)
(***************************************************************************)
GoodHeader ==
  << <<Signature>>, <<"version", "=", "2.4.2">>, <<"bookname", "=", "Veda">>,
     <<"wordcount", "=", "2">>, <<"idxfilesize", "=", "3">> >>

\* one record of an .idx file: the word, NUL, offset and size big-endian
EncodeIndexEntry(e) == EncodeStr(e.word) \o <<0>> \o PackU32(e.offset) \o PackU32(e.size)

RECURSIVE EncodeIndex(_)
EncodeIndex(es) ==
  IF es = <<>> THEN <<>> ELSE EncodeIndexEntry(Head(es)) \o EncodeIndex(Tail(es))

\* a Devanagari word (U+0915), an IAST word (U+0101) and a Romanized word ("a")
IdxWords == { <<2325>>, <<257>>, <<97>> }

IndexEntries == [word : IdxWords, offset : {0, 1}, size : {1, 2}]

\* the blob "a a a ..." cut to n bytes
BlobOfLen(n) == [k \in 1..n |-> IF k % 2 = 1 THEN 97 ELSE 32]

Archive(lines, idx, dict) == [ifo |-> IfoFile(lines), idx |-> idx, dict |-> dict]

\* archives with a valid header and a decodable index: any index of at most
\* MaxIdx records over any blob of at most MaxBlob bytes
GeneratedArchives ==
  { Archive(GoodHeader, BinFile(EncodeIndex(es)), BinFile(BlobOfLen(n))) :
      es \in SeqsUpTo(IndexEntries, MaxIdx), n \in 0..MaxBlob }

SampleIdx == EncodeIndex(<<[word |-> <<97>>, offset |-> 0, size |-> 1]>>)
SampleBlob == BlobOfLen(1)

\* the same sample archive, gzip-compressed
GzArchives == { Archive(GoodHeader, GzFile(SampleIdx), GzFile(SampleBlob)) }

\* sample archives with one fatal defect each: a missing file, a bad signature
\* (or an empty header file), a missing key, a non-integer count, a gzip stream
\* that does not decompress, an index word that is not UTF-8
FatalArchives ==
  { [ifo |-> NoIfo, idx |-> BinFile(SampleIdx), dict |-> BinFile(SampleBlob)],
    Archive(GoodHeader, NoBin, BinFile(SampleBlob)),
    Archive(GoodHeader, BinFile(SampleIdx), NoBin),
    Archive(<<>>, BinFile(SampleIdx), BinFile(SampleBlob)),
    Archive(<< <<"stardict">> >> \o Tail(GoodHeader), BinFile(SampleIdx), BinFile(SampleBlob)),
    Archive(SubSeq(GoodHeader, 1, 2) \o SubSeq(GoodHeader, 4, 5),
            BinFile(SampleIdx), BinFile(SampleBlob)),
    Archive(SubSeq(GoodHeader, 1, 3) \o << <<"wordcount", "=", "two">> >>
              \o SubSeq(GoodHeader, 5, 5),
            BinFile(SampleIdx), BinFile(SampleBlob)),
    Archive(GoodHeader, BadGzFile, BinFile(SampleBlob)),
    Archive(GoodHeader, BinFile(SampleIdx), BadGzFile),
    Archive(GoodHeader, BinFile(<<255>> \o SampleIdx), BinFile(SampleBlob)) }

Archives == GeneratedArchives \cup GzArchives \cup FatalArchives

\* archives imported twice in SpecRerun: every entry is in bounds (one byte at
\* offset 0) or out of bounds, over the blob "a "
RerunArchives ==
  { Archive(GoodHeader, BinFile(EncodeIndex(es)), BinFile(BlobOfLen(2))) :
      es \in SeqsUpTo([word : IdxWords, offset : {0, 1}, size : {1, 2}]
                       \ {e \in IndexEntries : e.offset + e.size = 2}, MaxIdx) }

\* the k-th word of a SpecBatch archive: distinct words, of the three scripts
BatchWord(k) ==
  IF k % 3 = 1 THEN <<96 + k>>
  ELSE IF k % 3 = 2 THEN <<257, 96 + k>>
  ELSE <<2325, 96 + k>>

\* archives of SpecBatch: n well-formed entries with distinct words
BatchArchives ==
  { Archive(GoodHeader,
            BinFile(EncodeIndex([k \in 1..n |-> [word |-> BatchWord(k), offset |-> 0, size |-> 1]])),
            BinFile(BlobOfLen(1))) : n \in 0..MaxRecords }

\* the bytes of one index record whose word is the byte string e.word
EncodeRawEntry(e) == e.word \o <<0>> \o PackU32(e.offset) \o PackU32(e.size)

RECURSIVE EncodeRawIndex(_)
EncodeRawIndex(es) ==
  IF es = <<>> THEN <<>> ELSE EncodeRawEntry(Head(es)) \o EncodeRawIndex(Tail(es))

\* index records whose word is "a", U+0101 in UTF-8, or the lead byte of
\* U+0101 alone (not UTF-8)
RawIndexEntries == [word : { <<97>>, <<196, 129>>, <<196>> }, offset : {0}, size : {1}]

\* every file that is the first n bytes of data
PrefixesOf(data) == { Slice(data, 0, n) : n \in 0..Len(data) }

\* archives whose index file is an index of at most MaxIdx records cut off at
\* any byte
IdxArchives ==
  { Archive(GoodHeader, BinFile(data), BinFile(BlobOfLen(1))) :
      data \in UNION { PrefixesOf(EncodeRawIndex(es)) :
                         es \in SeqsUpTo(RawIndexEntries, MaxIdx) } }

\* header files: the good one and ones with a first line that is not the
\* signature, no line, a key left out, a numeric value that is not a number or
\* is negative, a value with '=' in it, a key given twice
Headers ==
  { GoodHeader,
    <<>>,
    << <<>> >> \o Tail(GoodHeader),
    << <<"stardict">> >> \o Tail(GoodHeader),
    << <<SignatureAndMore>> >> \o Tail(GoodHeader),
    << <<Signature, "=", "1">> >> \o Tail(GoodHeader),
    [GoodHeader EXCEPT ![3] = <<"bookname", "=", "a", "=", "b">>],
    [GoodHeader EXCEPT ![4] = <<"wordcount", "=", "two">>],
    [GoodHeader EXCEPT ![4] = <<"wordcount", "=">>],
    [GoodHeader EXCEPT ![4] = <<"wordcount", "=", "-1">>],
    [GoodHeader EXCEPT ![5] = <<"idxfilesize", "=", "-1">>],
    [GoodHeader EXCEPT ![5] = <<"idxfilesize", "=", "1", "=", "2">>],
    [GoodHeader EXCEPT ![5] = <<"idxfilesize">>],
    GoodHeader \o << <<"wordcount", "=", "0">> >> }
  \cup { SubSeq(GoodHeader, 1, k - 1) \o SubSeq(GoodHeader, k + 1, 5) : k \in 2..5 }

HeaderArchives == { Archive(h, BinFile(SampleIdx), BinFile(SampleBlob)) : h \in Headers }

\* GoodHeader with another bookname
HeaderNamed(bookname) == [GoodHeader EXCEPT ![3] = <<"bookname", "=", bookname>>]

\* the archive named Veda: a Romanized and an IAST word
VedaArchives ==
  { Archive(HeaderNamed("Veda"),
            BinFile(EncodeIndex(<<[word |-> <<97>>, offset |-> 0, size |-> 1],
                                  [word |-> <<257>>, offset |-> 0, size |-> 1]>>)),
            BinFile(BlobOfLen(2))) }

\* archives named Gita: one entry (a word of the Veda archive) over a blob of
\* its own, or an index that does not decompress
GitaArchives ==
  { Archive(HeaderNamed("Gita"),
            BinFile(EncodeIndex(<<[word |-> <<97>>, offset |-> 0, size |-> 1]>>)),
            BinFile(BlobOfLen(1))),
    Archive(HeaderNamed("Gita"), BadGzFile, BinFile(BlobOfLen(1))) }

(***************************************************************************)
(* State                                                                   *)
(***************************************************************************)
VARIABLES
  disk,    \* path -> the archive directory there
  parser,  \* the fields of stardict_service.parser (one parser per service)
  store,   \* the committed rows of sanskrit_glossary, in insertion order
  run,     \* per run: the locals of import_stardict_dictionary and its session
  obs      \* per run: what the run's collaborators saw (for the properties)

vars == <<disk, parser, store, run, obs>>

NoSummary ==
  [dictionary_name |-> <<>>, source_path |-> 0, total_entries |-> 0,
   processed_entries |-> 0, imported_entries |-> 0, skipped_entries |-> 0,
   failed_entries |-> 0, context |-> "", dictionary_info |-> <<>>]

IdleRun ==
  [pc |-> "idle", dict_path |-> 0, batch_size |-> 0, deduplicate |-> FALSE,
   entries |-> <<>>, processed_entries |-> <<>>, skipped_entries |-> <<>>,
   existing_words |-> {}, i |-> 0, imported_count |-> 0, failed_count |-> 0,
   pending |-> <<>>, error |-> "none", summary |-> NoSummary]

\* processed: the processed entries before deduplication (line 337)
\* validate: the validate_entries argument, recorded where entries are processed alone
\* cancelled, applied: the run was cancelled, and the rows the commit in
\* flight at that moment wrote
\* upload, response, cleanup_scheduled: the run was started by the upload
\* endpoint, the status the endpoint answered with, and whether it added the
\* cleanup of the upload directory to the background tasks
NoObs == [started |-> FALSE, store_at_start |-> <<>>, reads |-> <<>>,
          validate |-> FALSE, processed |-> <<>>, lookup_failed |-> FALSE,
          calls |-> <<>>, cancelled |-> FALSE, applied |-> <<>>,
          upload |-> FALSE, response |-> "none", cleanup_scheduled |-> FALSE]

Finished(r) == run[r].pc \in {"done", "failed"}

\* lines 357-370: the import summary
Summary(rr, p) ==
  [dictionary_name |-> Bookname(p.info_data),
   source_path |-> rr.dict_path,
   total_entries |-> Len(rr.entries),
   processed_entries |-> Len(rr.processed_entries),
   imported_entries |-> rr.imported_count,
   skipped_entries |-> Len(rr.skipped_entries),
   failed_entries |-> rr.failed_count,
   context |-> "imported",
   dictionary_info |-> p.info_data]

\* Batch with a slice one entry too long: consecutive chunks overlap
BatchOverlapping(rr) == Slice(rr.processed_entries, rr.i, rr.i + rr.batch_size + 1)

\* processed_entries[i:i + batch_size] (line 348)
Batch(rr) == Slice(rr.processed_entries, rr.i, rr.i + rr.batch_size)

\* the head of the batch loop (lines 347-350, 514-523): the next chunk is added
\* to the session and its commit awaited; after the last chunk the summary is
\* returned.  range(0, n, batch_size) raises ValueError for batch_size = 0 and
\* is empty for batch_size < 0.
NextChunk(rr, p) ==
  IF rr.batch_size = 0
    THEN [rr EXCEPT !.pc = "failed", !.error = "ValueError"]
  ELSE IF rr.batch_size > 0 /\ rr.i < Len(rr.processed_entries)
    THEN [rr EXCEPT !.pc = "commit",
                    !.pending = @ \o Batch(rr)]
    ELSE [rr EXCEPT !.pc = "done", !.summary = Summary(rr, p)]

\* lines 491-499, then the batch loop
FilterThenBatch(rr, p) ==
  NextChunk([rr EXCEPT !.processed_entries = FilterUnique(@, rr.existing_words)], p)

\* lines 482-489: the IAST lookup is awaited when there are IAST words
AfterDevanagari(rr, p) ==
  IF NonEmptyField(rr.processed_entries, "word_iast") # <<>>
    THEN [rr EXCEPT !.pc = "lookup_iast"]
    ELSE FilterThenBatch(rr, p)

\* lines 339-341, 470-480: the Devanagari lookup is awaited when there are words
AfterProcessing(rr, p) ==
  IF ~rr.deduplicate THEN NextChunk(rr, p)
  ELSE IF NonEmptyField(rr.processed_entries, "word_devanagari") # <<>>
    THEN [rr EXCEPT !.pc = "lookup_devanagari"]
    ELSE AfterDevanagari(rr, p)

\* the service as constructed (lines 295-296, 573-574), an empty store, and an
\* archive from the set A on disk
InitWith(A) ==
  /\ disk \in [{1} -> A]
  /\ parser = NewParser
  /\ store = <<>>
  /\ run = [r \in Runs |-> IdleRun]
  /\ obs = [r \in Runs |-> NoObs]

\* what a call of import_stardict_dictionary is observed to do before its first
\* await: the store it found, the blob positions read, the entries of line 337
StartObs(res, validate_entries) ==
  [NoObs EXCEPT !.started = TRUE,
                !.store_at_start = store,
                !.reads = res.reads,
                !.processed = ProcessLoop(res.entries, "imported", validate_entries).processed]

\* import_stardict_dictionary with its arguments, from line 317 to its first
\* await (line 341 or 350); res is what parse_stardict_files did (line 315)
ImportCall(r, dict_path, res, batch_size, validate_entries, deduplicate) ==
  LET pl == ProcessLoop(res.entries, "imported", validate_entries)
      rr == [IdleRun EXCEPT !.dict_path = dict_path,
                            !.batch_size = batch_size,
                            !.deduplicate = deduplicate]
  IN /\ parser' = res.parser
     /\ IF res.err # "none"
          THEN run' = [run EXCEPT ![r] = [rr EXCEPT !.pc = "failed", !.error = res.err]]
        ELSE IF res.entries = <<>>
          THEN run' = [run EXCEPT ![r] = [rr EXCEPT !.pc = "failed", !.error = "NoEntries"]]
        ELSE run' = [run EXCEPT ![r] =
               AfterProcessing([rr EXCEPT !.entries = res.entries,
                                          !.processed_entries = pl.processed,
                                          !.skipped_entries = pl.skipped],
                               res.parser)]

\* import_stardict_dictionary up to its first await (lines 311-341): parse the
\* archive with the service's parser, process the entries; batch_size >= 1, as
\* the import endpoint requires (admin.py, StarDictImportRequest)
import_stardict_dictionary(r) ==
  /\ run[r].pc = "idle"
  /\ \E dict_path \in DOMAIN disk :
       LET res == parse_stardict_files(parser, disk[dict_path])
       IN \E validate_entries \in BOOLEAN, batch_size \in 1..MaxBatch, deduplicate \in BOOLEAN :
            /\ ImportCall(r, dict_path, res, batch_size, validate_entries, deduplicate)
            /\ obs' = [obs EXCEPT ![r] = StartObs(res, validate_entries)]
  /\ UNCHANGED <<disk, store>>

\* a call of import_stardict_dictionary made when no other run is in progress
StartImport(r) ==
  /\ \A q \in Runs : (q < r => Finished(q)) /\ (q > r => run[q].pc = "idle")
  /\ import_stardict_dictionary(r)

\* LookupDevanagari dropping the words the query returns
LookupDevanagariNoResult(r) ==
  /\ run[r].pc = "lookup_devanagari"
  /\ run' = [run EXCEPT ![r] = AfterDevanagari(run[r], parser)]
  /\ UNCHANGED <<disk, parser, store, obs>>

\* the Devanagari lookup returns (lines 476-480)
LookupDevanagari(r) ==
  /\ run[r].pc = "lookup_devanagari"
  /\ LET words == NonEmptyField(run[r].processed_entries, "word_devanagari")
         rr == [run[r] EXCEPT !.existing_words = @ \cup QueryColumn(store, "word_devanagari", words)]
     IN run' = [run EXCEPT ![r] = AfterDevanagari(rr, parser)]
  /\ UNCHANGED <<disk, parser, store, obs>>

\* LookupIast keeping only the words of its own query: the words the
\* Devanagari lookup found are lost
LookupIastForgetsDevanagari(r) ==
  /\ run[r].pc = "lookup_iast"
  /\ LET words == NonEmptyField(run[r].processed_entries, "word_iast")
         rr == [run[r] EXCEPT !.existing_words = QueryColumn(store, "word_iast", words)]
     IN run' = [run EXCEPT ![r] = FilterThenBatch(rr, parser)]
  /\ UNCHANGED <<disk, parser, store, obs>>

\* the IAST lookup returns (lines 485-499)
LookupIast(r) ==
  /\ run[r].pc = "lookup_iast"
  /\ LET words == NonEmptyField(run[r].processed_entries, "word_iast")
         rr == [run[r] EXCEPT !.existing_words = @ \cup QueryColumn(store, "word_iast", words)]
     IN run' = [run EXCEPT ![r] = FilterThenBatch(rr, parser)]
  /\ UNCHANGED <<disk, parser, store, obs>>

\* LookupFails filtering with the words found before the lookup that raised
LookupFailsKeepsFound(r) ==
  /\ run[r].pc \in {"lookup_devanagari", "lookup_iast"}
  /\ run' = [run EXCEPT ![r] = FilterThenBatch(run[r], parser)]
  /\ obs' = [obs EXCEPT ![r].lookup_failed = TRUE]
  /\ UNCHANGED <<disk, parser, store>>

\* a lookup raises (lines 501-503): the entries are returned unfiltered
LookupFails(r) ==
  /\ run[r].pc \in {"lookup_devanagari", "lookup_iast"}
  /\ run' = [run EXCEPT ![r] = NextChunk(run[r], parser)]
  /\ obs' = [obs EXCEPT ![r].lookup_failed = TRUE]
  /\ UNCHANGED <<disk, parser, store>>

\* the commit of _import_batch succeeds (lines 523-525, 351-352): the rows the
\* session holds are written
CommitOk(r) ==
  /\ run[r].pc = "commit"
  /\ store' = store \o run[r].pending
  /\ run' = [run EXCEPT ![r] =
       NextChunk([run[r] EXCEPT !.imported_count = @ + Len(Batch(run[r])),
                                !.i = @ + run[r].batch_size,
                                !.pending = <<>>], parser)]
  /\ obs' = [obs EXCEPT ![r].calls = Append(@, [chunk |-> Batch(run[r]), ok |-> TRUE])]
  /\ UNCHANGED <<disk, parser>>

\* CommitFails counting one failure per chunk instead of the chunk's entries
CommitFailsCountsOne(r) ==
  /\ run[r].pc = "commit"
  /\ run' = [run EXCEPT ![r] =
       NextChunk([run[r] EXCEPT !.failed_count = @ + 1,
                                !.i = @ + run[r].batch_size,
                                !.pending = <<>>], parser)]
  /\ obs' = [obs EXCEPT ![r].calls = Append(@, [chunk |-> Batch(run[r]), ok |-> FALSE])]
  /\ UNCHANGED <<disk, parser, store>>

\* CommitFails without the rollback: the failed chunk stays in the session
CommitFailsNoRollback(r) ==
  /\ run[r].pc = "commit"
  /\ run' = [run EXCEPT ![r] =
       NextChunk([run[r] EXCEPT !.failed_count = @ + Len(Batch(run[r])),
                                !.i = @ + run[r].batch_size], parser)]
  /\ obs' = [obs EXCEPT ![r].calls = Append(@, [chunk |-> Batch(run[r]), ok |-> FALSE])]
  /\ UNCHANGED <<disk, parser, store>>

\* _import_batch raises (lines 527-530, 353-355): the session is rolled back
CommitFails(r) ==
  /\ run[r].pc = "commit"
  /\ run' = [run EXCEPT ![r] =
       NextChunk([run[r] EXCEPT !.failed_count = @ + Len(Batch(run[r])),
                                !.i = @ + run[r].batch_size,
                                !.pending = <<>>], parser)]
  /\ obs' = [obs EXCEPT ![r].calls = Append(@, [chunk |-> Batch(run[r]), ok |-> FALSE])]
  /\ UNCHANGED <<disk, parser, store>>

Init == InitWith(Archives)

\* one import run
Next ==
  \/ StartImport(1)
  \/ LookupDevanagari(1)
  \/ LookupIast(1)
  \/ LookupFails(1)
  \/ CommitOk(1)
  \/ CommitFails(1)

Spec == Init /\ [][Next]_vars

\* one import run of an archive with up to MaxRecords well-formed entries
InitBatch == InitWith(BatchArchives)

SpecBatch == InitBatch /\ [][Next]_vars

\* two import runs, one after the other, of the same archive
InitRerun == InitWith(RerunArchives)

NextRerun ==
  \E r \in Runs :
    \/ StartImport(r)
    \/ LookupDevanagari(r)
    \/ LookupIast(r)
    \/ LookupFails(r)
    \/ CommitOk(r)
    \/ CommitFails(r)

SpecRerun == InitRerun /\ [][NextRerun]_vars

\* one import run of an archive with any header or any index bytes
InitParse == InitWith(IdxArchives \cup HeaderArchives)

SpecParse == InitParse /\ [][Next]_vars

\* the parser test endpoint (admin.py, test_stardict_parser): the service's
\* parser parses an archive, nothing is imported
test_stardict_parser ==
  /\ \E dict_path \in DOMAIN disk :
       parser' = parse_stardict_files(parser, disk[dict_path]).parser
  /\ UNCHANGED <<disk, store, run, obs>>

\* two archives on disk, of different names
InitShared ==
  /\ disk \in { d \in [{1, 2} -> VedaArchives \cup GitaArchives] :
                   d[1] \in VedaArchives /\ d[2] \in GitaArchives }
  /\ parser = NewParser
  /\ store = <<>>
  /\ run = [r \in Runs |-> IdleRun]
  /\ obs = [r \in Runs |-> NoObs]

\* requests served by the one service instance: a request suspended at an await
\* (a lookup, a commit) lets another one run
NextShared ==
  \/ \E r \in Runs :
       \/ import_stardict_dictionary(r)
       \/ LookupDevanagari(r)
       \/ LookupIast(r)
       \/ LookupFails(r)
       \/ CommitOk(r)
       \/ CommitFails(r)
  \/ test_stardict_parser

SpecShared == InitShared /\ [][NextShared]_vars

\* index records written to an index file: the word bytes of "a", of U+0101
\* and the lead byte of U+0101 alone (not UTF-8), with offsets and sizes
\* that have zero bytes and that fill several bytes
WrittenEntries ==
  { [word |-> <<97>>, offset |-> 0, size |-> 1],
    [word |-> <<196, 129>>, offset |-> 0, size |-> 1],
    [word |-> <<97>>, offset |-> 258, size |-> 16909060],
    [word |-> <<196, 129>>, offset |-> 16777216, size |-> 0],
    [word |-> <<196>>, offset |-> 0, size |-> 1] }

\* archives whose index file holds the records es, the last one complete or
\* cut at any byte; records and complete keep what was written: the records,
\* and how many of them are whole in the file
WrittenArchives ==
  { [ifo |-> IfoFile(GoodHeader), idx |-> BinFile(Slice(EncodeRawIndex(x.es), 0, x.n)),
     dict |-> BinFile(BlobOfLen(1)), records |-> x.es,
     complete |-> IF x.n = Len(EncodeRawIndex(x.es)) THEN Len(x.es) ELSE Len(x.es) - 1] :
      x \in UNION { [es : {es}, n : IF es = <<>> THEN {0}
                                     ELSE Len(EncodeRawIndex(SubSeq(es, 1, Len(es) - 1)))
                                            ..Len(EncodeRawIndex(es))] :
                     es \in SeqsUpTo(WrittenEntries, MaxIdx) } }

\* one import run of an archive of WrittenArchives
InitIndex == InitWith(WrittenArchives)

SpecIndex == InitIndex /\ [][Next]_vars

\* bytes of definitions: a control byte, a space, the letter a, the lead byte
\* 0xC2 and the continuation byte 0x85 (together U+0085, a control character
\* that is whitespace), and 0xFF, which no UTF-8 text holds
DefinitionBytes == {1, 32, 97, 194, 133, 255}

\* archives of one entry whose definition is any string of at most
\* MaxBlob + 2 bytes of DefinitionBytes
DefinitionArchives ==
  { Archive(GoodHeader,
            BinFile(EncodeIndex(<<[word |-> <<257>>, offset |-> 0, size |-> Len(blob)]>>)),
            BinFile(blob)) :
      blob \in SeqsUpTo(DefinitionBytes, MaxBlob + 2) }

\* one import run of an archive of DefinitionArchives
InitClean == InitWith(DefinitionArchives)

SpecClean == InitClean /\ [][Next]_vars

\* import_stardict_dictionary called on the service with any batch_size, zero
\* and negative included: the signature (line 304) takes any int
ImportAnyBatchSize(r) ==
  /\ run[r].pc = "idle"
  /\ \E dict_path \in DOMAIN disk :
       LET res == parse_stardict_files(parser, disk[dict_path])
       IN \E validate_entries \in BOOLEAN, batch_size \in (-1)..MaxBatch,
             deduplicate \in BOOLEAN :
            /\ ImportCall(r, dict_path, res, batch_size, validate_entries, deduplicate)
            /\ obs' = [obs EXCEPT ![r] = StartObs(res, validate_entries)]
  /\ UNCHANGED <<disk, store>>

\* two runs, one after the other, with any batch_size
NextAnyBatch ==
  \E r \in Runs :
    \/ /\ \A q \in Runs : (q < r => Finished(q)) /\ (q > r => run[q].pc = "idle")
       /\ ImportAnyBatchSize(r)
    \/ LookupDevanagari(r)
    \/ LookupIast(r)
    \/ LookupFails(r)
    \/ CommitOk(r)
    \/ CommitFails(r)

SpecAnyBatch == InitRerun /\ [][NextAnyBatch]_vars

\* the batch_size of a call that passes none (line 304)
DefaultBatchSize == 100

\* the paths of the upload endpoint: the upload directory it creates
\* (admin.py, lines 146-147) and the path upload_dir / base_name it passes to
\* the import (line 169), which is the name of no file and of no directory
UploadDir == 2
UploadBasePath == 3

\* valid uploaded files sharing a base name, plain or gzip-compressed
UploadedFiles == BatchArchives \cup GzArchives

\* parse_stardict_files on a path (lines 240-252): a path that is not a
\* directory with an .ifo file raises ValueError before any file is parsed
ParsePath(p, files, path) ==
  IF path \in DOMAIN files THEN parse_stardict_files(p, files[path])
  ELSE [err |-> "NoIfoFile", parser |-> p, entries |-> <<>>, reads |-> <<>>]

\* upload_and_import_stardict (admin.py, lines 119-169) up to the first await
\* of the import: the three files are saved in the upload directory and
\* import_stardict_dictionary is called with upload_dir / base_name
upload_and_import_stardict(r) ==
  /\ run[r].pc = "idle"
  /\ UploadDir \notin DOMAIN disk
  /\ \E files \in UploadedFiles, validate_entries \in BOOLEAN, deduplicate \in BOOLEAN :
       LET saved == (UploadDir :> files) @@ disk
           res == ParsePath(parser, saved, UploadBasePath)
       IN /\ disk' = saved
          /\ ImportCall(r, UploadBasePath, res, DefaultBatchSize, validate_entries,
                        deduplicate)
          /\ obs' = [obs EXCEPT ![r] = [StartObs(res, validate_entries)
                                          EXCEPT !.upload = TRUE]]
  /\ UNCHANGED store

\* upload_and_import_stardict after the import (admin.py, lines 171-197):
\* after an import that returned, line 178 evaluates self._cleanup_upload_dir
\* in a function that has no self, and the NameError enters the handler of
\* line 188; after an import that raised, the handler is entered directly; the
\* handler evaluates the same name at line 190, and its NameError is answered
\* with status 500 at line 197.  No task is added on either path.
UploadResponds(r) ==
  /\ obs[r].upload
  /\ obs[r].response = "none"
  /\ Finished(r)
  /\ obs' = [obs EXCEPT ![r].response = "500"]
  /\ UNCHANGED <<disk, parser, store, run>>

\* an upload, and after it imports by path of what is on disk
NextUpload ==
  \/ upload_and_import_stardict(1)
  \/ UploadResponds(1)
  \/ import_stardict_dictionary(2)
  \/ LookupDevanagari(2)
  \/ LookupIast(2)
  \/ LookupFails(2)
  \/ CommitOk(2)
  \/ CommitFails(2)

\* the service with one archive on disk and no upload directory yet
InitUpload == InitWith(VedaArchives)

SpecUpload == InitUpload /\ [][NextUpload]_vars

\* the characters of the words the classifier is run on: a, i, m, u, k, A,
\* the IAST letters a and i with macron, capital A with macron, and the
\* Devanagari letters ka and ma, the signs aa and ii and the virama
ClassifierChars ==
  {97, 105, 109, 117, 107, 65, 257, 299, 256, 2325, 2350, 2366, 2368, 2381}

ClassifierWords == SeqsUpTo(ClassifierChars, 2) \ {<<>>}

WordEntry(w) == [word |-> w, offset |-> 0, size |-> 1]

\* archives of one entry with any word of ClassifierWords, alone or before a
\* second entry
WordArchives ==
  { Archive(GoodHeader, BinFile(EncodeIndex(<<WordEntry(w)>>)), BinFile(BlobOfLen(1))) :
      w \in ClassifierWords }
  \cup
  { Archive(GoodHeader, BinFile(EncodeIndex(<<WordEntry(w), WordEntry(v)>>)),
            BinFile(BlobOfLen(1))) :
      w \in ClassifierWords, v \in {<<257>>, <<2325>>, <<257, 2325>>} }

\* one import run of an archive of WordArchives
InitWords == InitWith(WordArchives)

SpecWords == InitWords /\ [][Next]_vars

\* Cancel with CancelledError caught by the handlers for Exception: a lookup
\* cancelled is a lookup that failed, a commit cancelled is a chunk that failed
CancelCaughtAsFailure(r) ==
  /\ run[r].pc \in {"lookup_devanagari", "lookup_iast", "commit"}
  /\ IF run[r].pc = "commit"
       THEN run' = [run EXCEPT ![r] =
              NextChunk([run[r] EXCEPT !.failed_count = @ + Len(Batch(run[r])),
                                       !.i = @ + run[r].batch_size,
                                       !.pending = <<>>], parser)]
       ELSE run' = [run EXCEPT ![r] = NextChunk(run[r], parser)]
  /\ obs' = [obs EXCEPT ![r].cancelled = TRUE]
  /\ UNCHANGED <<disk, parser, store>>

\* the task of the run is cancelled while it awaits a lookup (lines 476, 485)
\* or the commit of a chunk (line 523): asyncio.CancelledError, a
\* BaseException, passes the handlers for Exception of lines 501, 527, 353 and
\* 375 and leaves import_stardict_dictionary; the commit in flight has
\* written its rows or has not, and the session is closed (database.py,
\* get_db)
Cancel(r) ==
  /\ run[r].pc \in {"lookup_devanagari", "lookup_iast", "commit"}
  /\ \E applied \in IF run[r].pc = "commit" THEN {<<>>, run[r].pending} ELSE {<<>>} :
       /\ store' = store \o applied
       /\ obs' = [obs EXCEPT ![r].cancelled = TRUE, ![r].applied = applied]
  /\ run' = [run EXCEPT ![r].pc = "cancelled", ![r].error = "CancelledError",
                        ![r].pending = <<>>]
  /\ UNCHANGED <<disk, parser>>

\* one import run of an archive of BatchArchives that can be cancelled
NextCancel ==
  \/ Next
  \/ Cancel(1)

SpecCancel == InitBatch /\ [][NextCancel]_vars

\* the string of n characters c
Rep(c, n) == [k \in 1..n |-> c]

\* words an index can hold, at and around the limit of 255 characters: blank,
\* one letter, the letter a with macron, 255 letters, 255 letters between two
\* spaces, 256 letters
LongWords ==
  {<<32>>, <<97>>, <<257>>, Rep(97, MaxWordLen), <<32>> \o Rep(97, MaxWordLen) \o <<32>>,
   Rep(97, MaxWordLen + 1)}

\* definition bytes and what _parse_definition_data makes of them, at and
\* around the limit of 10000 characters: no bytes, one control byte (cleaned to
\* one space), one letter, 10000 letters, a control byte before 10000 letters
\* (cleaned to a space and the letters), 10001 letters
LongDefinitions ==
  {[raw_data |-> <<>>, definition |-> <<>>],
   [raw_data |-> <<1>>, definition |-> <<32>>],
   [raw_data |-> <<98>>, definition |-> <<98>>],
   [raw_data |-> Rep(98, MaxDefinitionLen), definition |-> Rep(98, MaxDefinitionLen)],
   [raw_data |-> <<1>> \o Rep(98, MaxDefinitionLen),
    definition |-> <<32>> \o Rep(98, MaxDefinitionLen)],
   [raw_data |-> Rep(98, MaxDefinitionLen + 1),
    definition |-> Rep(98, MaxDefinitionLen + 1)]}

\* the record extract_definitions appends (lines 193-198) for a word of
\* LongWords and a definition of LongDefinitions
LongEntries ==
  { [word |-> w, definition |-> d.definition, source_dict |-> Bookname(<<>>),
     raw_data |-> d.raw_data] : w \in LongWords, d \in LongDefinitions }

\* the parser after parse_stardict_files returned the entries es (lines
\* 255-268), the blob being the definitions one after the other
ParsedParser(es) ==
  [info_data |-> <<>>,
   index_data |-> [k \in 1..Len(es) |->
                    [word |-> es[k].word,
                     offset |-> IF k = 1 THEN 0 ELSE Len(es[1].raw_data),
                     size |-> Len(es[k].raw_data)]],
   dict_data |-> IF Len(es) = 1 THEN es[1].raw_data ELSE es[1].raw_data \o es[2].raw_data,
   entries |-> es]

\* a run whose parse_stardict_files call has returned one or two entries with
\* words and definitions at and around the length limits (line 315)
InitProcess ==
  /\ disk \in [{1} -> VedaArchives]
  /\ \E es \in [{1} -> LongEntries] \cup
                { x \in [{1, 2} -> LongEntries] :
                    /\ x[2].word \in {<<97>>, Rep(97, MaxWordLen + 1)}
                    /\ x[2].definition = <<98>> } :
       parser = ParsedParser(es)
  /\ store = <<>>
  /\ run = [r \in Runs |-> IF r = 1 THEN [IdleRun EXCEPT !.pc = "parsed", !.dict_path = 1]
                                    ELSE IdleRun]
  /\ obs = [r \in Runs |-> NoObs]

\* import_stardict_dictionary from line 317 to its first await, on the entries
\* the parser returned
ProcessEntries(r) ==
  /\ run[r].pc = "parsed"
  /\ LET res == [err |-> "none", parser |-> parser, entries |-> parser.entries,
                 reads |-> <<>>]
     IN \E validate_entries \in BOOLEAN, batch_size \in 1..MaxBatch, deduplicate \in BOOLEAN :
          /\ ImportCall(r, run[r].dict_path, res, batch_size, validate_entries, deduplicate)
          /\ obs' = [obs EXCEPT ![r] = [StartObs(res, validate_entries)
                                          EXCEPT !.validate = validate_entries]]
  /\ UNCHANGED <<disk, store>>

NextProcess ==
  \/ ProcessEntries(1)
  \/ LookupDevanagari(1)
  \/ LookupIast(1)
  \/ LookupFails(1)
  \/ CommitOk(1)
  \/ CommitFails(1)

SpecProcess == InitProcess /\ [][NextProcess]_vars


(***************************************************************************)
(* Helpers of the properties                                               *)
(***************************************************************************)
InBounds(e, blob) == e.offset + e.size <= Len(blob)

RECURSIVE InBoundsEntries(_, _)
InBoundsEntries(index, blob) ==
  IF index = <<>> THEN <<>>
  ELSE (IF InBounds(Head(index), blob) THEN <<Head(index)>> ELSE <<>>)
       \o InBoundsEntries(Tail(index), blob)

RECURSIVE SizeOfCalls(_, _)
\* the sum of the sizes of the insert calls that ended ok (or not ok)
SizeOfCalls(calls, ok) ==
  IF calls = <<>> THEN 0
  ELSE (IF Head(calls).ok = ok THEN Len(Head(calls).chunk) ELSE 0)
       + SizeOfCalls(Tail(calls), ok)

RECURSIVE RowsOfCalls(_)
\* the rows of the insert calls that succeeded, in call order
RowsOfCalls(calls) ==
  IF calls = <<>> THEN <<>>
  ELSE (IF Head(calls).ok THEN Head(calls).chunk ELSE <<>>) \o RowsOfCalls(Tail(calls))

\* ceil(n / b)
CeilDiv(n, b) == (n + b - 1) \div b

\* the archive run r imports
ArchiveOf(r) == disk[run[r].dict_path]

(***************************************************************************)
(* C1: extract_definitions reads the definition bytes of an index entry    *)
(* exactly when offset + size <= len(blob); for an entry with              *)
(* offset + size > len(blob) it reads no byte of the blob, and no read     *)
(* touches a position outside the blob.                                    *)
(***************************************************************************)
C1_ReadsWithinBlob ==
  obs[1].started /\ obs[1].reads # <<>> =>
    LET index == parser.index_data
        blob == parser.dict_data
        reads == obs[1].reads
    IN /\ Len(reads) = Len(index)
       /\ \A k \in 1..Len(index) :
            /\ reads[k] \subseteq 0..(Len(blob) - 1)
            /\ InBounds(index[k], blob) =>
                 reads[k] = index[k].offset..(index[k].offset + index[k].size - 1)
            /\ ~InBounds(index[k], blob) => reads[k] = {}

\* an extraction that rejected one entry whose offset lies inside the blob and
\* read the bytes of another
C1_Witness ==
  /\ obs[1].started
  /\ \E k, j \in 1..Len(obs[1].reads) :
       /\ ~InBounds(parser.index_data[k], parser.dict_data)
       /\ parser.index_data[k].offset < Len(parser.dict_data)
       /\ obs[1].reads[k] = {}
       /\ obs[1].reads[j] # {}

(***************************************************************************)
(* C3: in the batch loop every chunk is attempted exactly once, in order,  *)
(* whatever happened to the chunks before it; imported_entries is the sum  *)
(* of the sizes of the chunks whose insert succeeded and failed_entries    *)
(* the sum of the sizes of the chunks whose insert failed.                 *)
(***************************************************************************)
C3_ChunkAccounting ==
  obs[1].started =>
    LET rr == run[1]
        calls == obs[1].calls
        b == rr.batch_size
    IN /\ \A k \in 1..Len(calls) :
            calls[k].chunk = Slice(rr.processed_entries, (k - 1) * b, k * b)
       /\ rr.imported_count = SizeOfCalls(calls, TRUE)
       /\ rr.failed_count = SizeOfCalls(calls, FALSE)
       /\ rr.pc = "done" =>
            /\ Len(calls) = CeilDiv(Len(rr.processed_entries), b)
            /\ rr.summary.imported_entries = SizeOfCalls(calls, TRUE)
            /\ rr.summary.failed_entries = SizeOfCalls(calls, FALSE)

\* five records in chunks of sizes 2, 2, 1 with the second insert failing:
\* imported_entries = 3 and failed_entries = 2
C3_Witness ==
  /\ run[1].pc = "done"
  /\ run[1].batch_size = 2
  /\ Len(run[1].processed_entries) = 5
  /\ [k \in 1..3 |-> obs[1].calls[k].ok] = <<TRUE, FALSE, TRUE>>
  /\ run[1].summary.imported_entries = 3
  /\ run[1].summary.failed_entries = 2

(***************************************************************************)
(* C4: at every point of a run the rows the run has added to the store are *)
(* exactly the entries of the chunks whose insert has succeeded so far, in *)
(* order: a failed chunk adds none of its entries and removes no row       *)
(* committed earlier; at the end imported_entries is the number of rows    *)
(* the run added.                                                          *)
(***************************************************************************)
C4_StoreHoldsCommittedChunks ==
  obs[1].started =>
    /\ store = obs[1].store_at_start \o RowsOfCalls(obs[1].calls)
    /\ run[1].pc = "done" =>
         run[1].summary.imported_entries = Len(store) - Len(obs[1].store_at_start)

\* a run in which a chunk was committed, the next one failed, and a later one
\* was committed
C4_Witness ==
  /\ run[1].pc = "done"
  /\ Len(obs[1].calls) = 3
  /\ [k \in 1..3 |-> obs[1].calls[k].ok] = <<TRUE, FALSE, TRUE>>
  /\ Len(store) = 3

(***************************************************************************)
(* C5: a run that ends with an error has made no insert; and a run of an   *)
(* archive with a fatal defect (a missing file, a bad signature, a missing *)
(* key, a non-integer count, a gzip stream that does not decompress, an    *)
(* undecodable index word) ends with an error, the store being what it was *)
(* before the run.                                                         *)
(***************************************************************************)
C5_FatalErrorNoInsert ==
  obs[1].started =>
    /\ run[1].pc = "failed" => store = obs[1].store_at_start
    /\ ArchiveOf(1) \in FatalArchives =>
         run[1].pc = "failed" /\ store = obs[1].store_at_start

\* a run that ended on the bad signature of its header
C5_Witness ==
  /\ run[1].pc = "failed"
  /\ run[1].error = "InvalidFormat"
  /\ ArchiveOf(1) \in FatalArchives
  /\ store = obs[1].store_at_start

(***************************************************************************)
(* C2: for any index and blob, extraction does not abort, and the records  *)
(* extracted are exactly one per in-bounds index entry, in index order,    *)
(* each with the word of its entry and the cleaned definition of its       *)
(* slice; out-of-bounds entries are skipped.                               *)
(***************************************************************************)
C2_OutOfBoundsSkipped ==
  obs[1].started /\ ArchiveOf(1) \notin FatalArchives =>
    LET expected == InBoundsEntries(parser.index_data, parser.dict_data)
    IN /\ run[1].error # "NotLoaded"
       /\ Len(parser.entries) = Len(expected)
       /\ \A k \in 1..Len(expected) :
            /\ parser.entries[k].word = expected[k].word
            /\ parser.entries[k].definition =
                 parse_definition_data(Slice(parser.dict_data, expected[k].offset,
                                             expected[k].offset + expected[k].size))

(***************************************************************************)
(* C6: for every archive whose three files exist, whose header is valid    *)
(* and whose index words decode, the run returns a summary and does not    *)
(* raise, however many entries are skipped or fail.                        *)
(***************************************************************************)
C6_AlwaysSummary ==
  Finished(1) /\ ArchiveOf(1) \notin FatalArchives => run[1].pc = "done"

(***************************************************************************)
(* C7, C8: the same archive imported twice with deduplicate = true         *)
(***************************************************************************)
ImportedTwice ==
  /\ run[1].pc = "done" /\ run[1].deduplicate
  /\ run[2].pc = "done" /\ run[2].deduplicate
  /\ run[1].dict_path = run[2].dict_path

AllInsertsOk(r) == \A k \in 1..Len(obs[r].calls) : obs[r].calls[k].ok

C8_SecondProcessedIsFirstImported ==
  ImportedTwice =>
    run[2].summary.processed_entries = run[1].summary.imported_entries

(***************************************************************************)
(* C9: an archive of N >= 0 well-formed index entries (in bounds, words    *)
(* and definitions non-empty and within the limits, no word repeated or    *)
(* already in the store), imported into a store whose inserts succeed,     *)
(* gives a summary with imported_entries = N and                           *)
(* skipped_entries = failed_entries = 0.                                   *)
(***************************************************************************)
WellFormedArchive(a, rows) ==
  LET index == parse_idx_file(a.idx).index
      blob == a.dict.data
      def(k) == Strip(parse_definition_data(
                  Slice(blob, index[k].offset, index[k].offset + index[k].size)))
  IN /\ a \notin FatalArchives
     /\ \A k \in 1..Len(index) :
          /\ InBounds(index[k], blob)
          /\ Strip(index[k].word) # <<>> /\ Len(Strip(index[k].word)) <= MaxWordLen
          /\ def(k) # <<>> /\ Len(def(k)) <= MaxDefinitionLen
          /\ \A j \in 1..Len(index) : j # k => index[j].word # index[k].word
          /\ \A j \in 1..Len(rows) :
               Strip(index[k].word) \notin
                 {rows[j].word_devanagari, rows[j].word_iast, rows[j].word_romanized}

C9_WellFormedAllImported ==
  Finished(1) /\ WellFormedArchive(ArchiveOf(1), obs[1].store_at_start) /\ AllInsertsOk(1) =>
    /\ run[1].pc = "done"
    /\ run[1].summary.imported_entries = Len(parse_idx_file(ArchiveOf(1).idx).index)
    /\ run[1].summary.skipped_entries = 0
    /\ run[1].summary.failed_entries = 0

(***************************************************************************)
(* C10: total_entries is the number of entries parsed from the index, the  *)
(* out-of-bounds ones included, and each out-of-bounds entry adds one to   *)
(* skipped_entries.                                                        *)
(***************************************************************************)
C10_TotalCountsIndex ==
  run[1].pc = "done" =>
    LET index == parser.index_data
        oob == Len(index) - Len(InBoundsEntries(index, parser.dict_data))
    IN /\ run[1].summary.total_entries = Len(index)
       /\ run[1].summary.skipped_entries >= oob

(***************************************************************************)
(* C11: the summary accounts for every index entry: the number of entries  *)
(* parsed from the index is imported_entries + failed_entries + the        *)
(* entries skipped at extraction and processing + the entries removed as   *)
(* duplicates, the last two reported as counts of their own.               *)
(***************************************************************************)
\* the summary's count of the entries removed by deduplication
DuplicateEntries(summary) ==
  IF "duplicate_entries" \in DOMAIN summary THEN summary["duplicate_entries"] ELSE 0

C11_EveryIndexEntryCounted ==
  \A r \in Runs : run[r].pc = "done" =>
    LET s == run[r].summary
        index == parse_idx_file(ArchiveOf(r).idx).index
    IN Len(index) = s.imported_entries + s.failed_entries + s.skipped_entries
                    + DuplicateEntries(s)

(***************************************************************************)
(* C12: for n surviving records and batch size b >= 1 the importer makes   *)
(* ceil(n/b) insert calls, one at a time, each with the next consecutive   *)
(* slice of the records: every chunk has b records except the last, which  *)
(* has n - b*(ceil(n/b)-1), and the chunks in call order concatenate to    *)
(* the surviving records.                                                  *)
(***************************************************************************)
RECURSIVE ChunksOfCalls(_)
\* the chunks of the insert calls, concatenated in call order
ChunksOfCalls(calls) ==
  IF calls = <<>> THEN <<>> ELSE Head(calls).chunk \o ChunksOfCalls(Tail(calls))

C12_ChunkPartition ==
  obs[1].started /\ run[1].pc \in {"commit", "done"} =>
    LET records == run[1].processed_entries
        n == Len(records)
        b == run[1].batch_size
        calls == obs[1].calls
        c == CeilDiv(n, b)
        sent == ChunksOfCalls(calls)
    IN /\ Len(calls) <= c
       /\ sent = SubSeq(records, 1, Len(sent))
       /\ \A k \in 1..Len(calls) :
            Len(calls[k].chunk) = IF k < c THEN b ELSE n - b * (c - 1)
       /\ run[1].pc = "commit" =>
            run[1].pending = SubSeq(records, Len(sent) + 1, Min(Len(sent) + b, n))
       /\ run[1].pc = "done" => Len(calls) = c /\ sent = records

\* five records sent with batch size 2 in three calls of 2, 2 and 1 records
C12_Witness ==
  /\ run[1].pc = "done"
  /\ run[1].batch_size = 2
  /\ Len(run[1].processed_entries) = 5
  /\ [k \in 1..Len(obs[1].calls) |-> Len(obs[1].calls[k].chunk)] = <<2, 2, 1>>
  /\ AllInsertsOk(1)

(***************************************************************************)
(* C13: two import runs of different archives that interleave do not       *)
(* interfere: the summary of each reports the dictionary_name and          *)
(* dictionary_info of its own archive and the entries extracted from it,   *)
(* as if the run had been alone.                                           *)
(***************************************************************************)
\* what a parser of its own makes of the archive of run r
OwnParse(r) == parse_stardict_files(NewParser, ArchiveOf(r))

C13_RunsDoNotInterfere ==
  \A r \in Runs :
    run[r].pc = "done" /\ (\A q \in Runs \ {r} : run[q].dict_path # run[r].dict_path) =>
      /\ run[r].summary.dictionary_name = Bookname(OwnParse(r).parser.info_data)
      /\ run[r].summary.dictionary_info = OwnParse(r).parser.info_data
      /\ run[r].entries = OwnParse(r).entries
      /\ run[r].summary.total_entries = Len(OwnParse(r).entries)

(***************************************************************************)
(* C14: when no run is in progress the service holds no header, index,     *)
(* blob or records of an archive; and the header, index and blob its       *)
(* parser holds at any time are those of one archive.                      *)
(***************************************************************************)
\* the parser's header, index and blob are each empty or those of archive a
ParserHoldsOnly(a) ==
  LET own == parse_stardict_files(NewParser, a).parser
  IN /\ parser.info_data \in {<<>>, own.info_data}
     /\ parser.index_data \in {<<>>, own.index_data}
     /\ parser.dict_data \in {<<>>, own.dict_data}

C14_NothingRetained ==
  /\ (\A r \in Runs : run[r].pc \in {"idle", "done", "failed"}) => parser = NewParser
  /\ \E dict_path \in DOMAIN disk : ParserHoldsOnly(disk[dict_path])

(***************************************************************************)
(* C15 - C17: the fields of a glossary entry and deduplication             *)
(***************************************************************************)
\* the script of a word: Devanagari if it has a code point of U+0900-U+097F,
\* else IAST if it has one of the diacritics, else Romanized
ScriptOf(w) ==
  IF \E k \in 1..Len(w) : w[k] \in 2304..2431 THEN "devanagari"
  ELSE IF \E k \in 1..Len(w) : w[k] \in IastChars THEN "iast"
  ELSE "romanized"

WordFields == {"word_devanagari", "word_iast", "word_romanized"}

\* the word of a glossary entry: the value of the field of its script
ClassifiedWord(e) ==
  IF e.word_romanized # <<>> THEN e.word_romanized
  ELSE IF e.word_iast # <<>> THEN e.word_iast
  ELSE e.word_devanagari

\* run r has deduplicated with lookups that succeeded
Deduplicated(r) ==
  run[r].deduplicate /\ run[r].pc \in {"commit", "done"} /\ ~obs[r].lookup_failed

\* C15: with deduplicate = true and lookups that succeed, the records handed
\* to the batch importer are the processed records, in order, whose word is
\* not in the set of words the lookups returned: a record is removed if and
\* only if its word is in that set.
C15_RemovedIffReported ==
  \A r \in Runs : Deduplicated(r) =>
    LET Kept(e) == ClassifiedWord(e) \notin run[r].existing_words
    IN /\ run[r].processed_entries = SelectSeq(obs[r].processed, Kept)
       /\ run[r].pc = "done" => ChunksOfCalls(obs[r].calls) = SelectSeq(obs[r].processed, Kept)

\* a second run whose lookups reported one of its two words: that record was
\* removed, the other was handed on
C15_Witness ==
  /\ Deduplicated(2) /\ run[2].pc = "done"
  /\ Len(obs[2].processed) = 2
  /\ Cardinality(run[2].existing_words) = 1
  /\ Len(run[2].processed_entries) = 1
  /\ ClassifiedWord(run[2].processed_entries[1]) \notin run[2].existing_words

StoredAtStart(r, w) ==
  \E j \in 1..Len(obs[r].store_at_start) : obs[r].store_at_start[j].word_devanagari = w

HeaderOk == ArchiveOf(1).ifo.exists /\ parse_ifo_file(ArchiveOf(1).ifo.lines).err = "none"

\* the bytes of the index file of the archive of run 1
IdxBytes == ArchiveOf(1).idx.data

RECURSIVE WordsFrom(_, _)
\* the NUL-terminated words of an index: a word runs from the cursor to the
\* next NUL, and the cursor then moves 8 bytes past the NUL
WordsFrom(data, cursor) ==
  LET nul == FindFrom(data, 0, cursor)
  IN IF cursor >= Len(data) \/ nul = -1 THEN <<>>
     ELSE <<SubSeq(data, cursor + 1, nul)>> \o WordsFrom(data, nul + 9)

RECURSIVE CompleteEntries(_, _)
\* the number of complete entries (word, NUL, 8 bytes) from the cursor on
CompleteEntries(data, cursor) ==
  LET nul == FindFrom(data, 0, cursor)
  IN IF cursor >= Len(data) \/ nul = -1 \/ nul + 9 > Len(data) THEN 0
     ELSE 1 + CompleteEntries(data, nul + 9)

RECURSIVE EndsOnBoundary(_, _)
\* the data from the cursor on is a sequence of complete entries
EndsOnBoundary(data, cursor) ==
  LET nul == FindFrom(data, 0, cursor)
  IN IF cursor >= Len(data) THEN cursor = Len(data)
     ELSE IF nul = -1 \/ nul + 9 > Len(data) THEN FALSE
     ELSE EndsOnBoundary(data, nul + 9)

AllWordsDecode(data) ==
  \A k \in 1..Len(WordsFrom(data, 0)) : DecodeStrict(WordsFrom(data, 0)[k]).ok

\* the partial_index flag of a result of parse_idx_file
PartialIndex(result) ==
  IF "partial_index" \in DOMAIN result THEN result["partial_index"] ELSE FALSE

\* C18: an index that ends in the middle of an entry (its words being UTF-8)
\* is not a failure: parse_idx_file returns the complete entries before the
\* cut and reports partial_index = true; partial_index is false for an index
\* that ends on an entry boundary.
C18_TruncationReported ==
  obs[1].started /\ HeaderOk /\ AllWordsDecode(IdxBytes) =>
    LET result == parse_idx_file(ArchiveOf(1).idx)
    IN /\ result.err = "none"
       /\ parser.index_data = result.index
       /\ Len(result.index) = CompleteEntries(IdxBytes, 0)
       /\ PartialIndex(result) = ~EndsOnBoundary(IdxBytes, 0)

\* C19: if a NUL-terminated word of the index is not UTF-8, parse_idx_file
\* fails and returns no entry, those parsed before the word included; the run
\* ends with that error and inserts nothing.
C19_UndecodableWordIsFatal ==
  obs[1].started /\ HeaderOk /\ ~AllWordsDecode(IdxBytes) =>
    /\ parse_idx_file(ArchiveOf(1).idx) = [err |-> "UnicodeDecodeError", index |-> <<>>]
    /\ parser.index_data = <<>>
    /\ run[1].entries = <<>>
    /\ run[1].pc = "failed" /\ run[1].error = "UnicodeDecodeError"
    /\ store = obs[1].store_at_start

\* an index whose first word decodes and whose second does not: the run failed
\* and the parser has no entry
C19_Witness ==
  /\ obs[1].started /\ HeaderOk
  /\ Len(WordsFrom(IdxBytes, 0)) = 2
  /\ DecodeStrict(WordsFrom(IdxBytes, 0)[1]).ok
  /\ ~DecodeStrict(WordsFrom(IdxBytes, 0)[2]).ok
  /\ run[1].pc = "failed" /\ run[1].error = "UnicodeDecodeError"
  /\ parser.index_data = <<>>

\* C20: parse_ifo_file fails, or returns a header with version, bookname,
\* wordcount and idxfilesize, the last two integers >= 0; it fails when the
\* first line is not the signature (an empty file included), when one of the
\* four keys is absent and when a numeric value is not an integer; a line is
\* split at its first '=', the rest being the value.
C20_HeaderValidated ==
  obs[1].started /\ ArchiveOf(1).ifo.exists =>
    LET lines == ArchiveOf(1).ifo.lines
        result == parse_ifo_file(lines)
        info == result.info
        keys == { Slice(lines[k], 0, 1) : k \in 2..Len(lines) }
        ValueOf(key) == LET k == CHOOSE j \in 2..Len(lines) :
                                   /\ Slice(lines[j], 0, 2) = <<key, "=">>
                                   /\ \A i \in (j + 1)..Len(lines) : Slice(lines[i], 0, 2) # <<key, "=">>
                        IN Slice(lines[k], 2, Len(lines[k]))
    IN /\ parser.info_data = info
       /\ result.err = "none" =>
            /\ \A k \in 1..Len(RequiredFields) : <<RequiredFields[k]>> \in DOMAIN info
            /\ info[<<"wordcount">>] \in Nat
            /\ info[<<"idxfilesize">>] \in Nat
            /\ info[<<"bookname">>] = ValueOf("bookname")
            /\ info[<<"version">>] = ValueOf("version")
       /\ (lines = <<>> \/ lines[1] # <<Signature>>) => result.err # "none"
       /\ (\E k \in 1..Len(RequiredFields) : <<RequiredFields[k]>> \notin keys)
            => result.err # "none"
       /\ result.err # "none" => run[1].pc = "failed" /\ info = <<>>

\* a record whose trimmed word or definition is empty or over the limit
EmptyOrTooLong(e) ==
  \/ Strip(e.word) = <<>>
  \/ Strip(e.definition) = <<>>
  \/ Len(Strip(e.word)) > 255
  \/ Len(Strip(e.definition)) > 10000

Accepted(e) == ~EmptyOrTooLong(e)

\* C21: with validate_entries = true a record is skipped iff its trimmed word
\* or definition is empty, or the word is longer than 255 or the definition
\* longer than 10000 characters: the skipped words are those records' words,
\* once each and in order, the processed entries are the other records, and
\* nothing else reaches deduplication, a chunk or the store.
C21_SkippedIffEmptyOrTooLong ==
  \A r \in Runs :
    obs[r].started /\ obs[r].validate =>
      LET kept == SelectSeq(run[r].entries, Accepted)
          dropped == SelectSeq(run[r].entries, EmptyOrTooLong)
      IN /\ run[r].skipped_entries = [k \in 1..Len(dropped) |-> dropped[k].word]
         /\ Len(obs[r].processed) = Len(kept)
         /\ \A k \in 1..Len(kept) :
              /\ obs[r].processed[k].word_devanagari = Strip(kept[k].word)
              /\ obs[r].processed[k].meaning_english = Strip(kept[k].definition)
         /\ Range(run[r].processed_entries) \subseteq Range(obs[r].processed)
         /\ \A c \in 1..Len(obs[r].calls) :
              Range(obs[r].calls[c].chunk) \subseteq Range(obs[r].processed)
         /\ Range(store) \subseteq Range(obs[r].processed)

\* a validated run finished after it accepted and stored a record of a
\* 255-character word and a 10000-character definition and skipped a record of
\* a 256-character word
C21_Witness ==
  /\ obs[1].validate
  /\ run[1].pc = "done"
  /\ Len(run[1].entries) = 2
  /\ Len(Strip(run[1].entries[1].word)) = 255
  /\ Len(Strip(run[1].entries[1].definition)) = 10000
  /\ Len(run[1].entries[2].word) = 256
  /\ Len(run[1].skipped_entries) = 1
  /\ Len(store) = 1
  /\ Len(store[1].meaning_english) = 10000

(***************************************************************************)
(* C22, C24: the word classifier                                           *)
(***************************************************************************)
\* the script recorded in a glossary entry: the word field that is populated
\* besides word_devanagari
ScriptIn(e) ==
  IF e.word_iast # <<>> THEN "iast"
  ELSE IF e.word_romanized # <<>> THEN "romanized"
  ELSE "devanagari"

\* C22: every word is classified, Devanagari if it has a code point of
\* U+0900-U+097F, otherwise IAST if it has an IAST diacritic, otherwise
\* Romanized; the run never fails in the classifier, and two entries of the
\* same word are classified alike whatever was classified before them.
C22_ClassifierTotalDeterministic ==
  /\ run[1].pc # "failed"
  /\ Len(obs[1].processed) = Len(run[1].entries)
  /\ \A k \in 1..Len(obs[1].processed) :
       /\ obs[1].processed[k].word_devanagari = run[1].entries[k].word
       /\ ScriptIn(obs[1].processed[k]) = ScriptOf(run[1].entries[k].word)
       /\ \A j \in 1..Len(obs[1].processed) :
            run[1].entries[j].word = run[1].entries[k].word
              => obs[1].processed[j] = obs[1].processed[k]

\* a word with an IAST diacritic before a Devanagari letter was classified
\* Devanagari, and the same word after it was classified the same
C22_Witness ==
  /\ Len(obs[1].processed) = 2
  /\ run[1].entries[1].word = <<257, 2325>>
  /\ run[1].entries[2].word = <<257, 2325>>
  /\ ScriptIn(obs[1].processed[1]) = "devanagari"
  /\ obs[1].processed[2] = obs[1].processed[1]

(***************************************************************************)
(* C23: cancellation                                                       *)
(***************************************************************************)
\* the chunks the batch loop of run r cuts its records into
ChunksOfRun(r) ==
  LET records == run[r].processed_entries
      b == run[r].batch_size
  IN { Slice(records, k * b, (k + 1) * b) : k \in 0..(CeilDiv(Len(records), b) - 1) }

\* C23: a run that was cancelled has ended with the cancellation: it returns
\* no summary, the chunk in flight is not counted as failed, and nothing is
\* inserted after it; and the store holds each chunk of the run entirely or
\* not at all.
C23_CancellationPropagates ==
  obs[1].started /\ run[1].pc \in {"commit", "done", "cancelled"} =>
    /\ \A chunk \in ChunksOfRun(1) :
         \/ Range(chunk) \subseteq Range(store)
         \/ Range(chunk) \cap Range(store) = {}
    /\ obs[1].cancelled =>
         /\ run[1].pc = "cancelled"
         /\ run[1].summary = NoSummary
         /\ run[1].failed_count = SizeOfCalls(obs[1].calls, FALSE)
         /\ store = obs[1].store_at_start \o RowsOfCalls(obs[1].calls) \o obs[1].applied
         /\ obs[1].applied \in {<<>>} \cup ChunksOfRun(1)

\* a run cancelled in the commit of its second chunk of two records, which the
\* store applied, with a third chunk never inserted
C23_Witness ==
  /\ obs[1].cancelled
  /\ run[1].batch_size = 2
  /\ Len(obs[1].calls) = 1
  /\ Len(obs[1].applied) = 2
  /\ Len(store) = 4
  /\ Len(run[1].processed_entries) = 5

\* the last n characters of w (all of w when it is shorter)
LastChars(w, n) == SubSeq(w, IF Len(w) > n THEN Len(w) - n + 1 ELSE 1, Len(w))

\* the gender table as claimed: masculine for a trailing a or a with macron,
\* feminine for a trailing i with macron, neuter for a trailing am or um
ClaimedGender(w) ==
  IF LastChars(w, 1) \in {<<97>>, <<257>>} THEN "masculine"
  ELSE IF LastChars(w, 1) = <<299>> THEN "feminine"
  ELSE IF LastChars(w, 2) \in {<<97, 109>>, <<117, 109>>} THEN "neuter"
  ELSE None

\* C24 as claimed: the gender of every entry is that of the claimed table.
C24_GenderByClaimedSuffix ==
  \A k \in 1..Len(obs[1].processed) :
    obs[1].processed[k].gender = ClaimedGender(obs[1].processed[k].word_devanagari)

\* the gender table of the lowercased word: masculine for a trailing a or
\* Devanagari sign aa, feminine for a trailing i, i with macron or Devanagari
\* sign ii, neuter for a trailing am, um or Devanagari ma with virama
SuffixGender(w) ==
  LET l == [k \in 1..Len(w) |-> LowerChar(w[k])]
  IN IF LastChars(l, 1) \in {<<97>>, <<2366>>} THEN "masculine"
     ELSE IF LastChars(l, 1) \in {<<105>>, <<299>>, <<2368>>} THEN "feminine"
     ELSE IF LastChars(l, 2) \in {<<97, 109>>, <<117, 109>>, <<2350, 2381>>} THEN "neuter"
     ELSE None

\* C24: the gender of every entry is one value, determined by the last one or
\* two characters of the lowercased word: masculine for a trailing a or
\* Devanagari sign aa, feminine for a trailing i, i with macron or Devanagari
\* sign ii, neuter for a trailing am, um or Devanagari ma with virama, and
\* None when none matches, a trailing a with macron included; no word makes
\* the run fail.
C24_GenderBySuffix ==
  /\ run[1].pc # "failed"
  /\ Len(obs[1].processed) = Len(run[1].entries)
  /\ \A k \in 1..Len(obs[1].processed) :
       /\ obs[1].processed[k].gender = SuffixGender(run[1].entries[k].word)
       /\ obs[1].processed[k].gender \in {"masculine", "feminine", "neuter", None}

\* entries built for the word ki, which got feminine, and for the word of the
\* single letter a with macron, which got no gender
C24_Witness ==
  /\ Len(obs[1].processed) = 2
  /\ obs[1].processed[1].word_devanagari = <<107, 105>>
  /\ obs[1].processed[1].gender = "feminine"
  /\ obs[1].processed[2].word_devanagari = <<257>>
  /\ obs[1].processed[2].gender = None

(***************************************************************************)
(* C25: the index file read back                                           *)
(***************************************************************************)
\* the first k records written, as parse_idx_file is to return them
ReadBack(es, k) ==
  [j \in 1..k |-> [word |-> DecodeStrict(es[j].word).str,
                   offset |-> es[j].offset, size |-> es[j].size]]

\* C25 as claimed: whatever the word bytes, an index of k complete records
\* and an incomplete tail is read back as those k records, in order.
C25_ReadsBackAnyRecords ==
  obs[1].started =>
    LET result == parse_idx_file(ArchiveOf(1).idx)
    IN /\ result.err = "none"
       /\ Len(result.index) = ArchiveOf(1).complete
       /\ \A j \in 1..Len(result.index) :
            /\ result.index[j].offset = ArchiveOf(1).records[j].offset
            /\ result.index[j].size = ArchiveOf(1).records[j].size

\* C25: an index of k complete records and an incomplete tail, the words that
\* are followed by their NUL being UTF-8, is read back as exactly those k
\* records, in order, with their word, offset and length, a last record that
\* ends at the end of the data included; the scan ends, having consumed at
\* least 9 bytes per record.
C25_ReadsBackRecords ==
  obs[1].started /\ AllWordsDecode(IdxBytes) =>
    LET result == parse_idx_file(ArchiveOf(1).idx)
    IN /\ result.err = "none"
       /\ result.index = ReadBack(ArchiveOf(1).records, ArchiveOf(1).complete)
       /\ parser.index_data = result.index
       /\ 9 * Len(result.index) <= Len(IdxBytes)

\* two records written whole, the file ending with the last byte of the
\* second, whose offset and size fill several bytes: both were read back
C25_Witness ==
  /\ obs[1].started
  /\ Len(ArchiveOf(1).records) = 2
  /\ ArchiveOf(1).complete = 2
  /\ Len(parser.index_data) = 2
  /\ parser.index_data[2] = [word |-> <<97>>, offset |-> 258, size |-> 16909060]

(***************************************************************************)
(* C26: cleaned definitions                                                *)
(***************************************************************************)
\* text has no control character, no two adjacent whitespace characters and
\* no whitespace at either end
IsClean(text) ==
  /\ \A k \in 1..Len(text) : text[k] \notin (0..31) \cup (127..159)
  /\ \A k \in 1..(Len(text) - 1) : ~(IsSpace(text[k]) /\ IsSpace(text[k + 1]))
  /\ text # <<>> => ~IsSpace(text[1]) /\ ~IsSpace(text[Len(text)])

\* C26: whatever the definition bytes, the run does not fail in cleaning them:
\* the definition is extracted; the meaning of every glossary entry, built or
\* stored, has no control character, no two adjacent whitespace characters and
\* no whitespace at either end, and cleaning its bytes again gives it back.
C26_MeaningIsClean ==
  obs[1].started /\ ArchiveOf(1).dict.data # <<>> =>
    /\ run[1].pc # "failed"
    /\ Len(run[1].entries) = 1
    /\ \A e \in Range(obs[1].processed) \cup Range(store) :
         /\ IsClean(e.meaning_english)
         /\ Strip(parse_definition_data(EncodeStr(e.meaning_english))) = e.meaning_english

\* the definition bytes "a", 0x01, space, "a" were stored as "a a"
C26_Witness ==
  /\ obs[1].started
  /\ ArchiveOf(1).dict.data = <<97, 1, 32, 97>>
  /\ Len(store) = 1
  /\ store[1].meaning_english = <<97, 32, 97>>

(***************************************************************************)
(* C27: the counters of the summary                                        *)
(***************************************************************************)
\* C27: in every summary, whatever the batch_size, processed_entries =
\* imported_entries + failed_entries, and imported_entries + failed_entries +
\* skipped_entries <= total_entries, with equality exactly when deduplication
\* removed nothing.
C27_SummaryCountersAddUp ==
  \A r \in Runs :
    run[r].pc = "done" =>
      LET sm == run[r].summary
          removed == Len(obs[r].processed) - Len(run[r].processed_entries)
      IN /\ sm.processed_entries = sm.imported_entries + sm.failed_entries
         /\ sm.imported_entries + sm.failed_entries + sm.skipped_entries <= sm.total_entries
         /\ (sm.imported_entries + sm.failed_entries + sm.skipped_entries = sm.total_entries)
              <=> (removed = 0)

(***************************************************************************)
(* C28: what a deduplicating run inserts                                   *)
(***************************************************************************)
\* the words of the rows
WordsOf(rows) == { rows[k].word_devanagari : k \in 1..Len(rows) }

\* run r has ended, having deduplicated, with every insert succeeding
DeduplicatedAndInserted(r) ==
  run[r].pc = "done" /\ run[r].deduplicate /\ AllInsertsOk(r)

RECURSIVE NotStored(_, _)
\* the entries whose word is not among words, in order
NotStored(entries, words) ==
  IF entries = <<>> THEN <<>>
  ELSE (IF Head(entries).word_devanagari \in words THEN <<>> ELSE <<Head(entries)>>)
       \o NotStored(Tail(entries), words)

C29_LookupFailureKeepsAllRecords ==
  \A r \in Runs : obs[r].lookup_failed =>
    /\ run[r].pc \in {"commit", "done"}
    /\ run[r].error = "none"
    /\ run[r].processed_entries = obs[r].processed
    /\ Len(run[r].skipped_entries) + Len(obs[r].processed) = Len(run[r].entries)
    /\ \A k \in 1..Len(obs[r].calls) :
         obs[r].calls[k].chunk =
           Slice(obs[r].processed, (k - 1) * run[r].batch_size, k * run[r].batch_size)
    /\ run[r].pc = "done" =>
         /\ run[r].summary.processed_entries = Len(obs[r].processed)
         /\ run[r].summary.skipped_entries = Len(run[r].skipped_entries)

\* a second run whose Devanagari lookup found stored words and whose IAST
\* lookup raised: it ended having inserted both of its records again
C29_Witness ==
  /\ obs[2].lookup_failed
  /\ run[2].existing_words # {}
  /\ run[2].pc = "done"
  /\ Len(obs[2].processed) = 2
  /\ run[2].summary.imported_entries = 2

(***************************************************************************)
(* C30: the upload endpoint                                                *)
(***************************************************************************)
\* C30: an upload of three valid files saves them in the upload directory,
\* imports the dictionary from the saved files, schedules the cleanup of the
\* directory and answers with the success response carrying the summary; an
\* import that stored entries is not answered with an error.
C30_UploadImportsAndCleansUp ==
  \A r \in Runs :
    obs[r].upload /\ obs[r].response # "none" =>
      /\ UploadDir \in DOMAIN disk /\ disk[UploadDir] \in UploadedFiles
      /\ run[r].pc = "done"
      /\ run[r].entries = parse_stardict_files(NewParser, disk[UploadDir]).entries
      /\ obs[r].cleanup_scheduled
      /\ obs[r].response = "200"
      /\ obs[r].response = "500" => store = obs[r].store_at_start

=============================================================================
